---- MODULE Spec2Model ----
(***************************************************************************)
(* State-machine model of the agentmarket on-chain programs.               *)
(*                                                                         *)
(*   marketplace-escrow : service requests and their escrow custody        *)
(*   royalty-splitter   : the configurable split and its audit records     *)
(*   reputation-system  : ratings and the per-provider aggregate           *)
(*                                                                         *)
(* Every instruction handler is one action.  An action models one call of  *)
(* the handler with its account validation, its require! checks in source  *)
(* order and its effects; a call that returns an error leaves every        *)
(* account as it was (the ledger executes an instruction all-or-nothing)   *)
(* and only the observation variable `last` records the error code.        *)
(*                                                                         *)
(* Abstractions                                                            *)
(*  - u64 is modelled with WordBits bits instead of 64, so that the        *)
(*    products amount * share stay inside TLC's integer range.            *)
(*    Every u64 operation goes through U64Add / U64Sub / U64Mul.           *)
(*  - Whether an overflowing u64 operation traps (overflow-checks on) or   *)
(*    wraps (overflow-checks off) is decided by the build profile, which   *)
(*    is not part of the sources: overflowChecks is chosen in Init.        *)
(*  - A String is modelled by its length, the only thing the handlers      *)
(*    inspect.                                                             *)
(*  - Rent, transaction fees and timestamps are left out; lamports holds   *)
(*    the funds the handlers move, and the handlers' direct debits and     *)
(*    credits of lamports take effect as written.                          *)
(*  - An account a handler takes as UncheckedAccount without a constraint  *)
(*    is an input of the call: the caller may pass any account for it.     *)
(***************************************************************************)
EXTENDS Integers, Sequences, FiniteSets, TLC

VARIABLES
    requests,        \* request PDA -> ServiceRequest account data
    lamports,        \* account key  -> balance (u64)
    config,          \* the royalty_config account (RoyaltyConfig)
    distributions,   \* total_transactions seed -> DistributionRecord account
    profiles,        \* profile PDA -> AgentReputationProfile account data
    ratings,         \* rating PDA  -> Rating account data
    overflowChecks,  \* TRUE: integer overflow aborts the instruction; FALSE: it wraps
    last             \* the last instruction call: arguments, result code, emitted event

vars == <<requests, lamports, config, distributions, profiles, ratings, overflowChecks, last>>

\* What the handlers of one program never touch.
outsideEscrow == <<config, distributions, profiles, ratings, overflowChecks>>
outsideRoyalty == <<requests, profiles, ratings, overflowChecks>>
outsideReputation == <<requests, lamports, config, distributions, overflowChecks>>

----------------------------------------------------------------------------
(* Machine integers *)

WordBits == 20
U64Modulus == 2 ^ WordBits
U64Max == U64Modulus - 1

U64Add(a, b) ==
    IF a + b <= U64Max THEN [ok |-> TRUE, v |-> a + b]
    ELSE IF overflowChecks THEN [ok |-> FALSE, v |-> 0]
    ELSE [ok |-> TRUE, v |-> (a + b) % U64Modulus]

U64Sub(a, b) ==
    IF a >= b THEN [ok |-> TRUE, v |-> a - b]
    ELSE IF overflowChecks THEN [ok |-> FALSE, v |-> 0]
    ELSE [ok |-> TRUE, v |-> (a - b) % U64Modulus]

U64Mul(a, b) ==
    IF a * b <= U64Max THEN [ok |-> TRUE, v |-> a * b]
    ELSE IF overflowChecks THEN [ok |-> FALSE, v |-> 0]
    ELSE [ok |-> TRUE, v |-> (a * b) % U64Modulus]

\* u32 is as much narrower than u64 as in the source: half its width.
U32Bits == WordBits \div 2
U32Modulus == 2 ^ U32Bits

\* `x as u32` of a u64 value: the low bits.
AsU32(x) == x % U32Modulus

\* u8 keeps its width.
U8Modulus == 256

U8Add(a, b) ==
    IF a + b < U8Modulus THEN [ok |-> TRUE, v |-> a + b]
    ELSE IF overflowChecks THEN [ok |-> FALSE, v |-> 0]
    ELSE [ok |-> TRUE, v |-> (a + b) % U8Modulus]

----------------------------------------------------------------------------
(* Program constants of marketplace-escrow *)

MaxRequestData == 1000
MaxResultData == 2000
MaxDisputeReason == 500
CreatorPercent == 85
PlatformPercent == 10
PercentBase == 100

----------------------------------------------------------------------------
(* Keys and accounts *)

Users == {"alice", "bob"}
AgentIds == {"agent"}
Signers == Users \cup AgentIds
Wallets == Signers \cup {"platform", "treasury"}

\* seeds = [b"request", user.key(), agent_id]
RequestPda(user, agent_id) == "request:" \o user \o ":" \o agent_id

\* seeds = [b"escrow", service_request.key()]
EscrowPda(request) == "escrow:" \o request

Requests == {RequestPda(u, a) : u \in Users, a \in AgentIds}
Escrows == {EscrowPda(r) : r \in Requests}
Accounts == Wallets \cup Escrows

\* A service_request account that `init` has not created yet.
Uninitialized ==
    [agent_id |-> "", user |-> "", amount |-> 0, status |-> "Uninitialized",
     request_data |-> 0, result_data |-> 0, completed_at |-> FALSE,
     escrow_account |-> ""]

RequestStatus ==
    {"Pending", "InProgress", "Completed", "Approved", "Disputed", "Cancelled"}

----------------------------------------------------------------------------
(* Inputs *)

\* The smallest amount whose product with the creator share leaves the word.
OverflowAmount == (U64Max \div CreatorPercent) + 1

AmountInputs == {0, 1, 1000, OverflowAmount}
RequestDataInputs == {MaxRequestData, MaxRequestData + 1}
ResultDataInputs == {0, MaxResultData, MaxResultData + 1}
ReasonInputs == {MaxDisputeReason, MaxDisputeReason + 1}

\* The accounts a caller of approve_result passes as creator, platform_wallet
\* and treasury_wallet (all three are unchecked accounts): the intended
\* payees, the caller itself for all three, and an escrow account as creator.
PayeeInputs(request, caller) ==
    {<<requests[request].agent_id, "platform", "treasury">>,
     <<caller, caller, caller>>}
    \cup {<<e, "platform", "treasury">> : e \in Escrows}

InitialLamports ==
    [a \in Accounts |->
        CASE a = "alice" -> OverflowAmount + 1
          [] a = "bob" -> 1000
          [] OTHER -> 0]

Call(op, request, caller, err) ==
    [op |-> op, request |-> request, caller |-> caller, err |-> err,
     amount |-> 0, creator |-> "", platform_wallet |-> "", treasury_wallet |-> "",
     creator_amount |-> 0, platform_amount |-> 0, treasury_amount |-> 0,
     lamports_before |-> 0, data |-> 0, source |-> ""]

\* The royalty_config account before initialize_config.
NoConfig ==
    [initialized |-> FALSE, creator_share |-> 0, platform_share |-> 0,
     treasury_share |-> 0, platform_wallet |-> "", treasury_wallet |-> "",
     admin |-> "", total_distributed |-> 0, total_transactions |-> 0,
     is_paused |-> FALSE]

\* A distribution_record account that `init` has not created yet.
NoDistribution ==
    [initialized |-> FALSE, creator |-> "", total_amount |-> 0,
     creator_amount |-> 0, platform_amount |-> 0, treasury_amount |-> 0]

\* The (user, request_id) pairs ratings are submitted for (request_id is an
\* argument nothing validates).
RatingKeys == {<<"alice", "r1">>, <<"alice", "r2">>, <<"bob", "r1">>}

\* seeds = [b"agent_reputation", agent_id]
ReputationPda(agent_id) == "agent_reputation:" \o agent_id

\* seeds = [b"rating", user.key(), request_id]
RatingPda(user, request_id) == "rating:" \o user \o ":" \o request_id

\* The providers that have a reputation profile: the provider of the escrow
\* requests and a second one.
Providers == AgentIds \cup {"agent2"}

ReputationPdas == {ReputationPda(a) : a \in Providers}
RatingPdas == {RatingPda(k[1], k[2]) : k \in RatingKeys}

\* Option<String>, a String being modelled by its length.
NoString == [some |-> FALSE, v |-> 0]
SomeString(len) == [some |-> TRUE, v |-> len]

\* An agent_profile account that `init` has not created yet.
NoProfile ==
    [initialized |-> FALSE, agent_id |-> "", total_ratings |-> 0,
     average_rating |-> 0, quality_score |-> 0, speed_score |-> 0,
     value_score |-> 0]

\* A rating account that `init` has not created yet.
NoRating ==
    [initialized |-> FALSE, agent_id |-> "", user |-> "", request_id |-> "",
     stars |-> 0, quality |-> 0, speed |-> 0, value |-> 0, review_text |-> 0,
     is_reported |-> FALSE, report_reason |-> NoString,
     is_moderated |-> FALSE, is_valid |-> FALSE, admin_note |-> NoString]

\* The model stops distributing after this many records.
MaxDistributions == 2

Init ==
    /\ requests = [r \in Requests |-> Uninitialized]
    /\ lamports = InitialLamports
    /\ config = NoConfig
    /\ distributions = [i \in 0 .. MaxDistributions |-> NoDistribution]
    /\ profiles = [p \in ReputationPdas |-> NoProfile]
    /\ ratings = [r \in RatingPdas |-> NoRating]
    /\ overflowChecks \in BOOLEAN
    /\ last = Call("none", "", "", "Ok")

----------------------------------------------------------------------------
(* marketplace-escrow: create_service_request *)

CreateServiceRequestCheck(request, user, amount, request_data) ==
    IF requests[request].status # "Uninitialized" THEN "AccountAlreadyInUse"
    ELSE IF ~(amount > 0) THEN "InvalidAmount"
    ELSE IF ~(request_data <= MaxRequestData) THEN "RequestDataTooLong"
    ELSE IF lamports[user] < amount THEN "InsufficientLamports"
    ELSE IF lamports[EscrowPda(request)] + amount > U64Max THEN "ArithmeticOverflow"
    ELSE "Ok"

create_service_request(user, agent_id, amount, request_data) ==
    LET request == RequestPda(user, agent_id)
        escrow == EscrowPda(request)
        err == CreateServiceRequestCheck(request, user, amount, request_data)
    IN  /\ last' = [Call("create_service_request", request, user, err) EXCEPT
                       !.amount = amount,
                       !.data = request_data,
                       !.lamports_before = IF err = "Ok" THEN lamports[user] ELSE 0]
        /\ IF err = "Ok"
           THEN /\ requests' = [requests EXCEPT ![request] =
                       [agent_id |-> agent_id, user |-> user, amount |-> amount,
                        status |-> "Pending", request_data |-> request_data,
                        result_data |-> 0, completed_at |-> FALSE,
                        escrow_account |-> escrow]]
                /\ lamports' = [lamports EXCEPT
                       ![user] = @ - amount,
                       ![escrow] = @ + amount]
           ELSE UNCHANGED <<requests, lamports>>
        /\ UNCHANGED outsideEscrow

----------------------------------------------------------------------------
(* marketplace-escrow: submit_result *)

\* submit_result without its status requirement.
SubmitResultCheckAnyStatus(sr, agent_authority, result_data) ==
    IF sr.status = "Uninitialized" THEN "AccountNotInitialized"
    ELSE IF ~(result_data <= MaxResultData) THEN "ResultDataTooLong"
    ELSE "Ok"

SubmitResultCheck(sr, agent_authority, result_data) ==
    IF sr.status = "Uninitialized" THEN "AccountNotInitialized"
    ELSE IF ~(result_data <= MaxResultData) THEN "ResultDataTooLong"
    ELSE IF ~(sr.status = "Pending" \/ sr.status = "InProgress")
         THEN "InvalidRequestStatus"
    ELSE "Ok"

submit_result(request, agent_authority, result_data) ==
    LET sr == requests[request]
        err == SubmitResultCheck(sr, agent_authority, result_data)
    IN  /\ last' = [Call("submit_result", request, agent_authority, err) EXCEPT
                       !.data = result_data]
        /\ IF err = "Ok"
           THEN requests' = [requests EXCEPT ![request] =
                    [sr EXCEPT !.result_data = result_data,
                               !.status = "Completed",
                               !.completed_at = TRUE]]
           ELSE UNCHANGED requests
        /\ UNCHANGED lamports
        /\ UNCHANGED outsideEscrow

----------------------------------------------------------------------------
(* The percentage split, as both programs compute it in u64:               *)
(*   creator  = (amount * creator_share) / 100                             *)
(*   platform = (amount * platform_share) / 100                            *)
(*   treasury = amount - creator - platform                                *)

SplitAmounts(amount, creator_share, platform_share) ==
    LET mc == U64Mul(amount, creator_share)
        mp == U64Mul(amount, platform_share)
        creator_amount == mc.v \div PercentBase
        platform_amount == mp.v \div PercentBase
        s1 == U64Sub(amount, creator_amount)
        s2 == U64Sub(s1.v, platform_amount)
    IN  [ok |-> mc.ok /\ mp.ok /\ s1.ok /\ s2.ok,
         creator_amount |-> creator_amount,
         platform_amount |-> platform_amount,
         treasury_amount |-> s2.v]

\* **from.try_borrow_mut_lamports()? -= amount; **to... += amount;
\* on the balances L (from and to may be the same account).
MoveLamports(L, from, to, amount) ==
    LET d == U64Sub(L.bal[from], amount)
        L1 == [L.bal EXCEPT ![from] = d.v]
        c == U64Add(L1[to], amount)
        L2 == [L1 EXCEPT ![to] = c.v]
    IN  [ok |-> L.ok /\ d.ok /\ c.ok, bal |-> L2]

----------------------------------------------------------------------------
(* marketplace-escrow: approve_result *)

\* approve_result without its status requirement.
ApproveResultCheckAnyStatus(sr, user) ==
    IF sr.status = "Uninitialized" THEN "AccountNotInitialized"
    ELSE IF ~(sr.user = user) THEN "UnauthorizedUser"
    ELSE "Ok"

ApproveResultCheck(sr, user) ==
    IF sr.status = "Uninitialized" THEN "AccountNotInitialized"
    ELSE IF ~(sr.status = "Completed") THEN "InvalidRequestStatus"
    ELSE IF ~(sr.user = user) THEN "UnauthorizedUser"
    ELSE "Ok"

\* The three transfers out of the escrow account, in source order.
ApproveTransfers(escrow, creator, platform_wallet, treasury_wallet, split) ==
    LET t1 == MoveLamports([ok |-> TRUE, bal |-> lamports],
                           escrow, creator, split.creator_amount)
        t2 == MoveLamports(t1, escrow, platform_wallet, split.platform_amount)
        t3 == MoveLamports(t2, escrow, treasury_wallet, split.treasury_amount)
    IN  t3

approve_result(request, user, creator, platform_wallet, treasury_wallet) ==
    LET sr == requests[request]
        escrow == EscrowPda(request)
        check == ApproveResultCheck(sr, user)
        split == SplitAmounts(sr.amount, CreatorPercent, PlatformPercent)
        moved == ApproveTransfers(escrow, creator, platform_wallet,
                                  treasury_wallet, split)
        err == IF check # "Ok" THEN check
               ELSE IF ~(split.ok /\ moved.ok) THEN "ArithmeticOverflow"
               ELSE "Ok"
    IN  /\ last' = [Call("approve_result", request, user, err) EXCEPT
                       !.creator = creator,
                       !.platform_wallet = platform_wallet,
                       !.treasury_wallet = treasury_wallet,
                       !.amount = IF err = "Ok" THEN sr.amount ELSE 0,
                       !.creator_amount =
                            IF err = "Ok" THEN split.creator_amount ELSE 0,
                       !.platform_amount =
                            IF err = "Ok" THEN split.platform_amount ELSE 0,
                       !.treasury_amount =
                            IF err = "Ok" THEN split.treasury_amount ELSE 0]
        /\ IF err = "Ok"
           THEN /\ requests' = [requests EXCEPT ![request].status = "Approved"]
                /\ lamports' = moved.bal
           ELSE UNCHANGED <<requests, lamports>>
        /\ UNCHANGED outsideEscrow

----------------------------------------------------------------------------
(* marketplace-escrow: dispute_result *)

\* dispute_result without its status requirement.
DisputeResultCheckAnyStatus(sr, user, reason) ==
    IF sr.status = "Uninitialized" THEN "AccountNotInitialized"
    ELSE IF ~(reason <= MaxDisputeReason) THEN "DisputeReasonTooLong"
    ELSE IF ~(sr.user = user) THEN "UnauthorizedUser"
    ELSE "Ok"

DisputeResultCheck(sr, user, reason) ==
    IF sr.status = "Uninitialized" THEN "AccountNotInitialized"
    ELSE IF ~(reason <= MaxDisputeReason) THEN "DisputeReasonTooLong"
    ELSE IF ~(sr.status = "Completed") THEN "InvalidRequestStatus"
    ELSE IF ~(sr.user = user) THEN "UnauthorizedUser"
    ELSE "Ok"

dispute_result(request, user, reason) ==
    LET sr == requests[request]
        err == DisputeResultCheck(sr, user, reason)
    IN  /\ last' = [Call("dispute_result", request, user, err) EXCEPT
                       !.data = reason]
        /\ IF err = "Ok"
           THEN requests' = [requests EXCEPT ![request].status = "Disputed"]
           ELSE UNCHANGED requests
        /\ UNCHANGED lamports
        /\ UNCHANGED outsideEscrow

----------------------------------------------------------------------------
(* marketplace-escrow: cancel_request *)

\* cancel_request without its requester requirement.
CancelRequestCheckAnyUser(sr, user) ==
    IF sr.status = "Uninitialized" THEN "AccountNotInitialized"
    ELSE IF ~(sr.status = "Pending") THEN "CannotCancelRequest"
    ELSE "Ok"

\* cancel_request if it required the status InProgress instead of Pending.
CancelRequestCheckInProgress(sr, user) ==
    IF sr.status = "Uninitialized" THEN "AccountNotInitialized"
    ELSE IF ~(sr.status = "InProgress") THEN "CannotCancelRequest"
    ELSE IF ~(sr.user = user) THEN "UnauthorizedUser"
    ELSE "Ok"

CancelRequestCheck(sr, user) ==
    IF sr.status = "Uninitialized" THEN "AccountNotInitialized"
    ELSE IF ~(sr.status = "Pending") THEN "CannotCancelRequest"
    ELSE IF ~(sr.user = user) THEN "UnauthorizedUser"
    ELSE "Ok"

cancel_request(request, user) ==
    LET sr == requests[request]
        escrow == EscrowPda(request)
        check == CancelRequestCheck(sr, user)
        moved == MoveLamports([ok |-> TRUE, bal |-> lamports],
                              escrow, user, sr.amount)
        err == IF check # "Ok" THEN check
               ELSE IF ~moved.ok THEN "ArithmeticOverflow"
               ELSE "Ok"
    IN  /\ last' = [Call("cancel_request", request, user, err) EXCEPT
                       !.amount = IF err = "Ok" THEN sr.amount ELSE 0]
        /\ IF err = "Ok"
           THEN /\ requests' = [requests EXCEPT ![request].status = "Cancelled"]
                /\ lamports' = moved.bal
           ELSE UNCHANGED <<requests, lamports>>
        /\ UNCHANGED outsideEscrow

----------------------------------------------------------------------------

NextEscrow ==
    \/ \E u \in Users, a \in AgentIds, amt \in AmountInputs, d \in RequestDataInputs :
          create_service_request(u, a, amt, d)
    \/ \E r \in Requests, s \in Signers, d \in ResultDataInputs :
          submit_result(r, s, d)
    \/ \E r \in Requests, s \in Signers :
          \E p \in PayeeInputs(r, s) : approve_result(r, s, p[1], p[2], p[3])
    \/ \E r \in Requests, s \in Signers, d \in ReasonInputs :
          dispute_result(r, s, d)
    \/ \E r \in Requests, s \in Signers :
          cancel_request(r, s)

SpecEscrow == Init /\ [][NextEscrow]_vars

----------------------------------------------------------------------------
(* royalty-splitter: inputs *)

Admins == {"alice"}

\* creator_share, platform_share, treasury_share: the policy of the escrow
\* path, a triple summing to 105, and a triple whose sum is 100 only modulo 256.
ShareInputs == {<<85, 10, 5>>, <<90, 10, 5>>, <<200, 100, 56>>}

None == [some |-> FALSE, v |-> 0]
Some(x) == [some |-> TRUE, v |-> x]

\* Option<u8> arguments of update_config.
ShareUpdateInputs ==
    {<<None, None, None>>, <<Some(50), Some(30), Some(20)>>,
     <<Some(80), None, None>>, <<Some(80), Some(15), None>>,
     <<Some(200), Some(100), Some(56)>>}

NoKey == [some |-> FALSE, v |-> ""]
SomeKey(k) == [some |-> TRUE, v |-> k]

\* (admin, shares, wallets) of update_config: the admin with every share
\* update, the admin moving the platform wallet to bob, and bob as a caller
\* who is not the admin.
UpdateConfigInputs ==
    {<<"alice", sh, <<NoKey, NoKey>>>> : sh \in ShareUpdateInputs}
    \cup {<<"alice", <<None, None, None>>, <<SomeKey("bob"), NoKey>>>>,
          <<"bob", <<Some(50), Some(30), Some(20)>>, <<NoKey, NoKey>>>>}

\* (admin, amount) of withdraw_platform_fees.
WithdrawInputs == {<<"alice", 0>>, <<"alice", 500>>, <<"bob", 500>>}

\* (amount, source_account, creator_account, platform_account) of
\* distribute_payment: an ordinary payment, one whose source is also the
\* creator account, one whose product with the share overflows, a zero
\* amount, a platform account other than the configured one, and an amount
\* the source does not hold.
DistributeInputs ==
    {<<1000, "bob", "agent", "platform">>,
     <<1000, "alice", "alice", "platform">>,
     <<OverflowAmount, "alice", "agent", "platform">>,
     <<0, "bob", "agent", "platform">>,
     <<1000, "bob", "agent", "bob">>,
     <<OverflowAmount, "bob", "agent", "platform">>}

----------------------------------------------------------------------------
(* royalty-splitter: initialize_config *)

\* creator_share + platform_share + treasury_share, in u8, left to right.
ShareTotal(creator_share, platform_share, treasury_share) ==
    LET s1 == U8Add(creator_share, platform_share)
        s2 == U8Add(s1.v, treasury_share)
    IN  [ok |-> s1.ok /\ s2.ok, v |-> s2.v]

InitializeConfigCheck(creator_share, platform_share, treasury_share) ==
    LET total == ShareTotal(creator_share, platform_share, treasury_share)
    IN  IF config.initialized THEN "AccountAlreadyInUse"
        ELSE IF ~total.ok THEN "ArithmeticOverflow"
        ELSE IF ~(total.v = PercentBase) THEN "InvalidShareTotal"
        ELSE "Ok"

initialize_config(admin, creator_share, platform_share, treasury_share, platform_wallet, treasury_wallet) ==
    LET err == InitializeConfigCheck(creator_share, platform_share, treasury_share)
    IN  /\ last' = [Call("initialize_config", "", admin, err) EXCEPT
                       !.creator_amount = creator_share,
                       !.platform_amount = platform_share,
                       !.treasury_amount = treasury_share]
        /\ IF err = "Ok"
           THEN config' =
                    [initialized |-> TRUE, creator_share |-> creator_share,
                     platform_share |-> platform_share,
                     treasury_share |-> treasury_share,
                     platform_wallet |-> platform_wallet,
                     treasury_wallet |-> treasury_wallet,
                     admin |-> admin, total_distributed |-> 0,
                     total_transactions |-> 0, is_paused |-> FALSE]
           ELSE UNCHANGED config
        /\ UNCHANGED <<lamports, distributions>>
        /\ UNCHANGED outsideRoyalty

----------------------------------------------------------------------------
(* royalty-splitter: distribute_payment *)

\* The account constraints of DistributePayment, in declaration order.
\* The account validation of distribute_payment without the pause constraint.
DistributePaymentAccountsIgnoringPause(platform_account, treasury_account) ==
    IF ~config.initialized THEN "AccountNotInitialized"
    ELSE IF distributions[config.total_transactions].initialized
         THEN "AccountAlreadyInUse"
    ELSE IF ~(platform_account = config.platform_wallet)
         THEN "InvalidPlatformWallet"
    ELSE IF ~(treasury_account = config.treasury_wallet)
         THEN "InvalidTreasuryWallet"
    ELSE "Ok"

DistributePaymentAccounts(platform_account, treasury_account) ==
    IF ~config.initialized THEN "AccountNotInitialized"
    ELSE IF distributions[config.total_transactions].initialized
         THEN "AccountAlreadyInUse"
    ELSE IF config.is_paused THEN "ContractPaused"
    ELSE IF ~(platform_account = config.platform_wallet)
         THEN "InvalidPlatformWallet"
    ELSE IF ~(treasury_account = config.treasury_wallet)
         THEN "InvalidTreasuryWallet"
    ELSE "Ok"

\* The three transfers out of the source account, in source order.
DistributeTransfers(source_account, creator_account, platform_account, treasury_account, split) ==
    LET t1 == MoveLamports([ok |-> TRUE, bal |-> lamports],
                           source_account, creator_account, split.creator_amount)
        t2 == MoveLamports(t1, source_account, platform_account,
                           split.platform_amount)
        t3 == MoveLamports(t2, source_account, treasury_account,
                           split.treasury_amount)
    IN  t3

distribute_payment(payer, amount, creator, source_account, creator_account, platform_account, treasury_account) ==
    LET accounts == DistributePaymentAccounts(platform_account, treasury_account)
        split == SplitAmounts(amount, config.creator_share, config.platform_share)
        moved == DistributeTransfers(source_account, creator_account,
                                     platform_account, treasury_account, split)
        total == U64Add(config.total_distributed, amount)
        count == U64Add(config.total_transactions, 1)
        err == IF accounts # "Ok" THEN accounts
               ELSE IF ~(amount > 0) THEN "InvalidAmount"
               ELSE IF ~split.ok THEN "ArithmeticOverflow"
               ELSE IF ~(lamports[source_account] >= amount) THEN "InsufficientFunds"
               ELSE IF ~(moved.ok /\ total.ok /\ count.ok) THEN "ArithmeticOverflow"
               ELSE "Ok"
        ok == err = "Ok"
    IN  /\ config.total_transactions < MaxDistributions
        /\ last' = [Call("distribute_payment", "", payer, err) EXCEPT
                       !.amount = amount,
                       !.source = source_account,
                       !.creator = creator_account,
                       !.platform_wallet = platform_account,
                       !.treasury_wallet = treasury_account,
                       !.creator_amount = IF ok THEN split.creator_amount ELSE 0,
                       !.platform_amount = IF ok THEN split.platform_amount ELSE 0,
                       !.treasury_amount = IF ok THEN split.treasury_amount ELSE 0]
        /\ IF ok
           THEN /\ lamports' = moved.bal
                /\ config' = [config EXCEPT !.total_distributed = total.v,
                                            !.total_transactions = count.v]
                /\ distributions' =
                       [distributions EXCEPT ![config.total_transactions] =
                           [initialized |-> TRUE, creator |-> creator,
                            total_amount |-> amount,
                            creator_amount |-> split.creator_amount,
                            platform_amount |-> split.platform_amount,
                            treasury_amount |-> split.treasury_amount]]
           ELSE UNCHANGED <<lamports, config, distributions>>
        /\ UNCHANGED outsideRoyalty

----------------------------------------------------------------------------
(* royalty-splitter: update_config *)

\* The share fields after the Option arguments have been applied.
UpdatedShares(shares) ==
    [config EXCEPT
        !.creator_share = IF shares[1].some THEN shares[1].v ELSE @,
        !.platform_share = IF shares[2].some THEN shares[2].v ELSE @,
        !.treasury_share = IF shares[3].some THEN shares[3].v ELSE @]

UpdateConfigCheck(admin, shares) ==
    LET c == UpdatedShares(shares)
        total == ShareTotal(c.creator_share, c.platform_share, c.treasury_share)
    IN  IF ~config.initialized THEN "AccountNotInitialized"
        ELSE IF ~(config.admin = admin) THEN "UnauthorizedAdmin"
        ELSE IF ~total.ok THEN "ArithmeticOverflow"
        ELSE IF ~(total.v = PercentBase) THEN "InvalidShareTotal"
        ELSE "Ok"

update_config(admin, shares, wallets) ==
    LET err == UpdateConfigCheck(admin, shares)
    IN  /\ last' = Call("update_config", "", admin, err)
        /\ IF err = "Ok"
           THEN config' =
                    [UpdatedShares(shares) EXCEPT
                        !.platform_wallet =
                             IF wallets[1].some THEN wallets[1].v ELSE @,
                        !.treasury_wallet =
                             IF wallets[2].some THEN wallets[2].v ELSE @]
           ELSE UNCHANGED config
        /\ UNCHANGED <<lamports, distributions>>
        /\ UNCHANGED outsideRoyalty

----------------------------------------------------------------------------
(* royalty-splitter: withdraw_platform_fees *)

WithdrawPlatformFeesCheck(admin, amount, platform_vault) ==
    IF ~config.initialized THEN "AccountNotInitialized"
    ELSE IF ~(config.admin = admin) THEN "UnauthorizedAdmin"
    ELSE IF ~(amount > 0) THEN "InvalidAmount"
    ELSE IF ~(lamports[platform_vault] >= amount) THEN "InsufficientFunds"
    ELSE "Ok"

withdraw_platform_fees(admin, amount, platform_vault, destination) ==
    LET check == WithdrawPlatformFeesCheck(admin, amount, platform_vault)
        moved == MoveLamports([ok |-> TRUE, bal |-> lamports],
                              platform_vault, destination, amount)
        err == IF check # "Ok" THEN check
               ELSE IF ~moved.ok THEN "ArithmeticOverflow"
               ELSE "Ok"
    IN  /\ last' = [Call("withdraw_platform_fees", "", admin, err) EXCEPT
                       !.amount = amount,
                       !.source = platform_vault,
                       !.creator = destination]
        /\ IF err = "Ok"
           THEN lamports' = moved.bal
           ELSE UNCHANGED lamports
        /\ UNCHANGED <<config, distributions>>
        /\ UNCHANGED outsideRoyalty

----------------------------------------------------------------------------
(* royalty-splitter: set_pause_state *)

SetPauseStateCheck(admin) ==
    IF ~config.initialized THEN "AccountNotInitialized"
    ELSE IF ~(config.admin = admin) THEN "UnauthorizedAdmin"
    ELSE "Ok"

set_pause_state(admin, is_paused) ==
    LET err == SetPauseStateCheck(admin)
    IN  /\ last' = [Call("set_pause_state", "", admin, err) EXCEPT
                       !.data = IF is_paused THEN 1 ELSE 0]
        /\ IF err = "Ok"
           THEN config' = [config EXCEPT !.is_paused = is_paused]
           ELSE UNCHANGED config
        /\ UNCHANGED <<lamports, distributions>>
        /\ UNCHANGED outsideRoyalty

----------------------------------------------------------------------------

NextRoyalty ==
    \/ \E a \in Admins, sh \in ShareInputs :
          initialize_config(a, sh[1], sh[2], sh[3], "platform", "treasury")
    \/ \E in \in DistributeInputs :
          distribute_payment("bob", in[1], "agent", in[2], in[3], in[4], "treasury")
    \/ \E in \in UpdateConfigInputs : update_config(in[1], in[2], in[3])
    \/ \E in \in WithdrawInputs :
          withdraw_platform_fees(in[1], in[2], "platform", "alice")
    \/ \E a \in Users, b \in BOOLEAN :
          set_pause_state(a, b)

SpecRoyalty == Init /\ [][NextRoyalty]_vars

----------------------------------------------------------------------------
(* Program constants and inputs of reputation-system *)

MinScore == 1
MaxScore == 5
MaxReviewText == 1000
MaxReportReason == 500
MaxAdminNote == 500

\* (stars, quality, speed, value) arguments of submit_rating: three valid
\* tuples and one out-of-range value in each position.
ValidScoreInputs == {<<3, 4, 5, 1>>, <<4, 5, 1, 3>>, <<5, 1, 3, 4>>}
InvalidScoreInputs ==
    {<<0, 3, 3, 3>>, <<3, 6, 3, 3>>, <<3, 3, 0, 3>>, <<3, 3, 3, 6>>}

\* (user, request_id, agent_profile, scores, review_text) of submit_rating:
\* alice rates "agent" for two requests and bob for one; the out-of-range
\* scores and the over-long review come from alice.
SubmitInputs ==
    {<<k[1], k[2], ReputationPda("agent"), sc, MaxReviewText>> :
        k \in RatingKeys, sc \in ValidScoreInputs}
    \cup {<<"alice", "r1", ReputationPda("agent"), sc, MaxReviewText>> :
              sc \in InvalidScoreInputs}
    \cup {<<"alice", "r1", ReputationPda("agent"), <<5, 1, 3, 4>>, MaxReviewText + 1>>}
ReportReasonInputs == {MaxReportReason, MaxReportReason + 1}

\* (rating, agent_profile, is_valid, admin_note) of moderate_rating: every
\* rating is declared invalid; alice's first rating is also declared valid,
\* and moderated with an over-long note.
ModerateInputs ==
    {<<r, ReputationPda(a), FALSE, MaxAdminNote>> : r \in RatingPdas, a \in AgentIds}
    \cup {<<RatingPda("alice", "r1"), ReputationPda("agent"), TRUE, MaxAdminNote>>,
          <<RatingPda("alice", "r1"), ReputationPda("agent"), FALSE, MaxAdminNote + 1>>}

\* A call of a reputation-system instruction, as `last` records it.
RatingCall(op, rating, profile, caller, err) ==
    [profile |-> profile, scores |-> <<0, 0, 0, 0>>, is_valid |-> FALSE]
        @@ Call(op, rating, caller, err)

----------------------------------------------------------------------------
(* reputation-system: initialize_agent_reputation *)

InitializeAgentReputationCheck(profile) ==
    IF profiles[profile].initialized THEN "AccountAlreadyInUse"
    ELSE "Ok"

initialize_agent_reputation(creator, agent_id) ==
    LET profile == ReputationPda(agent_id)
        err == InitializeAgentReputationCheck(profile)
    IN  /\ last' = RatingCall("initialize_agent_reputation", "", profile, creator, err)
        /\ IF err = "Ok"
           THEN profiles' =
                    [profiles EXCEPT ![profile] =
                        [initialized |-> TRUE, agent_id |-> agent_id,
                         total_ratings |-> 0, average_rating |-> 0,
                         quality_score |-> 0, speed_score |-> 0,
                         value_score |-> 0]]
           ELSE UNCHANGED profiles
        /\ UNCHANGED ratings
        /\ UNCHANGED outsideReputation

----------------------------------------------------------------------------
(* reputation-system: submit_rating *)

\* A weighted average that rounds to the nearest integer instead of truncating.
calculate_rounded_average(current_avg, current_count, new_value) ==
    IF current_count = 0 THEN [ok |-> TRUE, v |-> new_value]
    ELSE LET product == U64Mul(current_avg, current_count)
             total_score == U64Add(product.v, new_value)
             count == U64Add(current_count, 1)
         IN  [ok |-> product.ok /\ total_score.ok /\ count.ok /\ count.v # 0,
              v |-> IF count.v = 0 THEN 0
                    ELSE AsU32((2 * total_score.v + count.v) \div (2 * count.v))]

\* fn calculate_weighted_average(current_avg: u32, current_count: u64,
\*                               new_value: u32) -> u32
calculate_weighted_average(current_avg, current_count, new_value) ==
    IF current_count = 0 THEN [ok |-> TRUE, v |-> new_value]
    ELSE LET product == U64Mul(current_avg, current_count)
             total_score == U64Add(product.v, new_value)
             count == U64Add(current_count, 1)
         IN  [ok |-> product.ok /\ total_score.ok /\ count.ok /\ count.v # 0,
              v |-> IF count.v = 0 THEN 0
                    ELSE AsU32(total_score.v \div count.v)]

\* A range check that accepts a score of 0.
ValidScoreFromZero(x) == x <= MaxScore

ValidScore(x) == x >= MinScore /\ x <= MaxScore

\* submit_rating if the rating account could be created over an existing one.
SubmitRatingCheckOverwriting(rating, profile, scores, review_text) ==
    IF ~profiles[profile].initialized THEN "AccountNotInitialized"
    ELSE IF ~ValidScore(scores[1]) THEN "InvalidRating"
    ELSE IF ~ValidScore(scores[2]) THEN "InvalidRating"
    ELSE IF ~ValidScore(scores[3]) THEN "InvalidRating"
    ELSE IF ~ValidScore(scores[4]) THEN "InvalidRating"
    ELSE IF ~(review_text <= MaxReviewText) THEN "ReviewTooLong"
    ELSE "Ok"

SubmitRatingCheck(rating, profile, scores, review_text) ==
    IF ~profiles[profile].initialized THEN "AccountNotInitialized"
    ELSE IF ratings[rating].initialized THEN "AccountAlreadyInUse"
    ELSE IF ~ValidScore(scores[1]) THEN "InvalidRating"
    ELSE IF ~ValidScore(scores[2]) THEN "InvalidRating"
    ELSE IF ~ValidScore(scores[3]) THEN "InvalidRating"
    ELSE IF ~ValidScore(scores[4]) THEN "InvalidRating"
    ELSE IF ~(review_text <= MaxReviewText) THEN "ReviewTooLong"
    ELSE "Ok"

\* The update with the new overall average rounded up instead of truncated.
UpdatedProfileRoundingUp(agent_profile, scores) ==
    LET total_ratings == U64Add(agent_profile.total_ratings, 1)
        current_total_score == U64Mul(agent_profile.average_rating, agent_profile.total_ratings)
        new_total_score == U64Add(current_total_score.v, scores[1])
        new_average == IF total_ratings.v = 0 THEN 0
                       ELSE AsU32((new_total_score.v + total_ratings.v - 1) \div total_ratings.v)
        count == U64Sub(total_ratings.v, 1)
        quality == calculate_weighted_average(agent_profile.quality_score, count.v, scores[2])
        speed == calculate_weighted_average(agent_profile.speed_score, count.v, scores[3])
        value == calculate_weighted_average(agent_profile.value_score, count.v, scores[4])
    IN  [ok |-> /\ total_ratings.ok /\ current_total_score.ok /\ new_total_score.ok
                /\ total_ratings.v # 0 /\ count.ok
                /\ quality.ok /\ speed.ok /\ value.ok,
         profile |-> [agent_profile EXCEPT
                         !.total_ratings = total_ratings.v,
                         !.average_rating = new_average,
                         !.quality_score = quality.v,
                         !.speed_score = speed.v,
                         !.value_score = value.v]]

\* The update storing the new total score without dividing it by the count.
UpdatedProfileUndivided(agent_profile, scores) ==
    LET total_ratings == U64Add(agent_profile.total_ratings, 1)
        current_total_score == U64Mul(agent_profile.average_rating, agent_profile.total_ratings)
        new_total_score == U64Add(current_total_score.v, scores[1])
        count == U64Sub(total_ratings.v, 1)
        quality == calculate_weighted_average(agent_profile.quality_score, count.v, scores[2])
        speed == calculate_weighted_average(agent_profile.speed_score, count.v, scores[3])
        value == calculate_weighted_average(agent_profile.value_score, count.v, scores[4])
    IN  [ok |-> /\ total_ratings.ok /\ current_total_score.ok /\ new_total_score.ok
                /\ total_ratings.v # 0 /\ count.ok
                /\ quality.ok /\ speed.ok /\ value.ok,
         profile |-> [agent_profile EXCEPT
                         !.total_ratings = total_ratings.v,
                         !.average_rating = AsU32(new_total_score.v),
                         !.quality_score = quality.v,
                         !.speed_score = speed.v,
                         !.value_score = value.v]]

\* The aggregate of agent_profile after one more rating with these scores.
UpdatedProfile(agent_profile, scores) ==
    LET total_ratings == U64Add(agent_profile.total_ratings, 1)
        current_total_score == U64Mul(agent_profile.average_rating, agent_profile.total_ratings)
        new_total_score == U64Add(current_total_score.v, scores[1])
        new_average == IF total_ratings.v = 0 THEN 0
                       ELSE AsU32(new_total_score.v \div total_ratings.v)
        count == U64Sub(total_ratings.v, 1)
        quality == calculate_weighted_average(agent_profile.quality_score, count.v, scores[2])
        speed == calculate_weighted_average(agent_profile.speed_score, count.v, scores[3])
        value == calculate_weighted_average(agent_profile.value_score, count.v, scores[4])
    IN  [ok |-> /\ total_ratings.ok /\ current_total_score.ok /\ new_total_score.ok
                /\ total_ratings.v # 0 /\ count.ok
                /\ quality.ok /\ speed.ok /\ value.ok,
         profile |-> [agent_profile EXCEPT
                         !.total_ratings = total_ratings.v,
                         !.average_rating = new_average,
                         !.quality_score = quality.v,
                         !.speed_score = speed.v,
                         !.value_score = value.v]]

submit_rating(user, request_id, profile, scores, review_text) ==
    LET rating == RatingPda(user, request_id)
        check == SubmitRatingCheck(rating, profile, scores, review_text)
        updated == UpdatedProfile(profiles[profile], scores)
        err == IF check # "Ok" THEN check
               ELSE IF ~updated.ok THEN "ArithmeticOverflow"
               ELSE "Ok"
    IN  /\ last' = [RatingCall("submit_rating", rating, profile, user, err) EXCEPT
                       !.scores = scores, !.data = review_text]
        /\ IF err = "Ok"
           THEN /\ ratings' =
                       [ratings EXCEPT ![rating] =
                           [NoRating EXCEPT
                               !.initialized = TRUE,
                               !.agent_id = profile,
                               !.user = user,
                               !.request_id = request_id,
                               !.stars = scores[1],
                               !.quality = scores[2],
                               !.speed = scores[3],
                               !.value = scores[4],
                               !.review_text = review_text]]
                /\ profiles' = [profiles EXCEPT ![profile] = updated.profile]
           ELSE UNCHANGED <<ratings, profiles>>
        /\ UNCHANGED outsideReputation

----------------------------------------------------------------------------
(* reputation-system: report_rating *)

ReportRatingCheck(rating, reason) ==
    IF ~ratings[rating].initialized THEN "AccountNotInitialized"
    ELSE IF ~(reason <= MaxReportReason) THEN "ReasonTooLong"
    ELSE "Ok"

report_rating(reporter, rating, reason) ==
    LET err == ReportRatingCheck(rating, reason)
    IN  /\ last' = [RatingCall("report_rating", rating, "", reporter, err) EXCEPT
                       !.data = reason]
        /\ IF err = "Ok"
           THEN ratings' = [ratings EXCEPT ![rating].is_reported = TRUE,
                                           ![rating].report_reason = SomeString(reason)]
           ELSE UNCHANGED ratings
        /\ UNCHANGED profiles
        /\ UNCHANGED outsideReputation

----------------------------------------------------------------------------
(* reputation-system: moderate_rating *)

ModerateRatingCheck(rating, profile, admin_note) ==
    IF ~ratings[rating].initialized THEN "AccountNotInitialized"
    ELSE IF ~profiles[profile].initialized THEN "AccountNotInitialized"
    ELSE IF ~(admin_note <= MaxAdminNote) THEN "NoteTooLong"
    ELSE "Ok"

\* The adjustment without the reset of the average when the last rating goes.
AdjustedProfileKeepingAverage(agent_profile, stars) ==
    IF agent_profile.total_ratings > 1
    THEN LET current_total == U64Mul(agent_profile.average_rating, agent_profile.total_ratings)
             adjusted_total == U64Sub(current_total.v, stars)
             total_ratings == agent_profile.total_ratings - 1
         IN  [ok |-> current_total.ok /\ adjusted_total.ok,
              profile |-> [agent_profile EXCEPT
                              !.total_ratings = total_ratings,
                              !.average_rating = AsU32(adjusted_total.v \div total_ratings)]]
    ELSE [ok |-> TRUE,
          profile |-> [agent_profile EXCEPT !.total_ratings = 0]]

\* A moderation that also withdraws the rating from the three sub-scores,
\* which the handler never does.
AdjustedProfileAllScores(agent_profile, stars) ==
    IF agent_profile.total_ratings > 1
    THEN LET current_total == U64Mul(agent_profile.average_rating, agent_profile.total_ratings)
             adjusted_total == U64Sub(current_total.v, stars)
             total_ratings == agent_profile.total_ratings - 1
             average == AsU32(adjusted_total.v \div total_ratings)
         IN  [ok |-> current_total.ok /\ adjusted_total.ok,
              profile |-> [agent_profile EXCEPT
                              !.total_ratings = total_ratings,
                              !.average_rating = average,
                              !.quality_score = average,
                              !.speed_score = average,
                              !.value_score = average]]
    ELSE [ok |-> TRUE,
          profile |-> [agent_profile EXCEPT !.total_ratings = 0,
                                            !.average_rating = 0,
                                            !.quality_score = 0,
                                            !.speed_score = 0,
                                            !.value_score = 0]]

\* The aggregate of agent_profile after a rating with these stars has been
\* declared invalid.
AdjustedProfile(agent_profile, stars) ==
    IF agent_profile.total_ratings > 1
    THEN LET current_total == U64Mul(agent_profile.average_rating, agent_profile.total_ratings)
             adjusted_total == U64Sub(current_total.v, stars)
             total_ratings == agent_profile.total_ratings - 1
         IN  [ok |-> current_total.ok /\ adjusted_total.ok,
              profile |-> [agent_profile EXCEPT
                              !.total_ratings = total_ratings,
                              !.average_rating = AsU32(adjusted_total.v \div total_ratings)]]
    ELSE [ok |-> TRUE,
          profile |-> [agent_profile EXCEPT !.total_ratings = 0,
                                            !.average_rating = 0]]

moderate_rating(admin, rating, profile, is_valid, admin_note) ==
    LET check == ModerateRatingCheck(rating, profile, admin_note)
        adjusted == AdjustedProfile(profiles[profile], ratings[rating].stars)
        err == IF check # "Ok" THEN check
               ELSE IF ~is_valid /\ ~adjusted.ok THEN "ArithmeticOverflow"
               ELSE "Ok"
    IN  /\ last' = [RatingCall("moderate_rating", rating, profile, admin, err) EXCEPT
                       !.is_valid = is_valid, !.data = admin_note]
        /\ IF err = "Ok"
           THEN /\ ratings' = [ratings EXCEPT ![rating].is_moderated = TRUE,
                                              ![rating].is_valid = is_valid,
                                              ![rating].admin_note = SomeString(admin_note)]
                /\ profiles' = IF is_valid THEN profiles
                               ELSE [profiles EXCEPT ![profile] = adjusted.profile]
           ELSE UNCHANGED <<ratings, profiles>>
        /\ UNCHANGED outsideReputation

----------------------------------------------------------------------------

NextReputation ==
    \/ \E a \in AgentIds : initialize_agent_reputation("alice", a)
    \/ \E in \in SubmitInputs : submit_rating(in[1], in[2], in[3], in[4], in[5])
    \/ \E reason \in ReportReasonInputs : report_rating("bob", RatingPda("alice", "r1"), reason)
    \/ \E in \in ModerateInputs : moderate_rating("bob", in[1], in[2], in[3], in[4])

SpecReputation == Init /\ [][NextReputation]_vars

----------------------------------------------------------------------------
(* reputation-system with two providers *)

\* (user, request_id, agent_profile, scores, review_text) of submit_rating:
\* every pair rates either provider, alice with 5 stars and bob with 3.
SubmitProviderInputs ==
    {<<k[1], k[2], p, IF k[1] = "alice" THEN <<5, 1, 3, 4>> ELSE <<3, 4, 5, 1>>, MaxReviewText>> :
        k \in RatingKeys, p \in ReputationPdas}

\* (rating, agent_profile, is_valid, admin_note) of moderate_rating: every
\* rating is declared invalid against either profile.
ModerateProviderInputs ==
    {<<r, p, FALSE, MaxAdminNote>> : r \in RatingPdas, p \in ReputationPdas}

NextProviders ==
    \/ \E a \in Providers : initialize_agent_reputation("alice", a)
    \/ \E in \in SubmitProviderInputs : submit_rating(in[1], in[2], in[3], in[4], in[5])
    \/ \E in \in ModerateProviderInputs : moderate_rating("alice", in[1], in[2], in[3], in[4])

SpecProviders == Init /\ [][NextProviders]_vars

----------------------------------------------------------------------------
(* Properties of marketplace-escrow *)

Initialized(r) == requests[r].status # "Uninitialized"

AllowedTransitions ==
    {<<"Pending", "InProgress">>, <<"Pending", "Cancelled">>,
     <<"Pending", "Completed">>, <<"InProgress", "Completed">>,
     <<"Completed", "Approved">>, <<"Completed", "Disputed">>}

TerminalStatus == {"Approved", "Disputed", "Cancelled"}

\* C1: every change of an existing request's status is one of the six listed
\* transitions, and a request whose status is Approved, Disputed or Cancelled
\* keeps that status in every step of every operation.
C1_StatusTransitions ==
    [][\A r \in Requests :
          LET s == requests[r].status
              t == requests'[r].status
          IN  /\ (s # "Uninitialized" /\ t # s) => <<s, t>> \in AllowedTransitions
              /\ s \in TerminalStatus => t = s]_vars

\* An approved request on which a later submit_result has just been refused,
\* while the other request has been cancelled.
C1_Witness ==
    \E r, q \in Requests :
        /\ requests[r].status = "Approved"
        /\ requests[q].status = "Cancelled"
        /\ last.op = "submit_result"
        /\ last.request = r
        /\ last.err = "InvalidRequestStatus"

\* C2: the escrow balance is never negative, equals the deposited amount while
\* the request is Pending, InProgress, Completed or Disputed, and is zero once
\* the request is Approved or Cancelled.
C2_EscrowBalance ==
    \A r \in Requests :
        LET sr == requests[r]
            bal == lamports[EscrowPda(r)]
        IN  /\ bal >= 0
            /\ sr.status \in {"Pending", "InProgress", "Completed", "Disputed"}
                  => bal = sr.amount
            /\ sr.status \in {"Approved", "Cancelled"} => bal = 0

\* C3: the split a successful approve_result (shares 85/10) or
\* distribute_payment (configured shares) reports is a = floor(amount*s1/100),
\* b = floor(amount*s2/100), c = amount - a - b, with a + b + c = amount and
\* a, b, c >= 0.
C3_SplitExact ==
    LET s1 == IF last.op = "approve_result" THEN CreatorPercent
              ELSE config.creator_share
        s2 == IF last.op = "approve_result" THEN PlatformPercent
              ELSE config.platform_share
    IN  (/\ last.op \in {"approve_result", "distribute_payment"}
         /\ last.err = "Ok"
         /\ s1 + s2 <= PercentBase) =>
            /\ last.creator_amount = (last.amount * s1) \div PercentBase
            /\ last.platform_amount = (last.amount * s2) \div PercentBase
            /\ last.treasury_amount =
                   last.amount - last.creator_amount - last.platform_amount
            /\ last.creator_amount + last.platform_amount + last.treasury_amount
                   = last.amount
            /\ last.creator_amount >= 0
            /\ last.platform_amount >= 0
            /\ last.treasury_amount >= 0

\* C4: a successful approve_result on a request of amount A raises the
\* creator's balance by floor(85*A/100), the platform wallet's by
\* floor(10*A/100) and the treasury wallet's by the rest, empties the escrow
\* and sets the status to Approved.
C4_ApproveRoundTrip ==
    [][(last'.op = "approve_result" /\ last'.err = "Ok") =>
          LET r == last'.request
              A == requests[r].amount
              c == (A * CreatorPercent) \div PercentBase
              p == (A * PlatformPercent) \div PercentBase
          IN  /\ lamports'[last'.creator] = lamports[last'.creator] + c
              /\ lamports'[last'.platform_wallet]
                     = lamports[last'.platform_wallet] + p
              /\ lamports'[last'.treasury_wallet]
                     = lamports[last'.treasury_wallet] + (A - c - p)
              /\ lamports'[EscrowPda(r)] = 0
              /\ requests'[r].status = "Approved"]_vars

\* C5: create_service_request followed by cancel_request of the same requester
\* restores the requester's balance to its value before the create, leaves the
\* escrow balance zero and the status Cancelled.
C5_CreateCancelRoundTrip ==
    [][(/\ last.op = "create_service_request" /\ last.err = "Ok"
        /\ last'.op = "cancel_request" /\ last'.err = "Ok"
        /\ last'.request = last.request /\ last'.caller = last.caller) =>
          /\ lamports'[last.caller] = last.lamports_before
          /\ lamports'[EscrowPda(last.request)] = 0
          /\ requests'[last.request].status = "Cancelled"]_vars

\* C6 as stated: on an approved request every approve_result and every
\* submit_result fails with InvalidRequestStatus and changes nothing.
C6_RepeatFailsInvalidStatus ==
    [][\A r \in Requests :
          (/\ requests[r].status = "Approved"
           /\ last'.request = r
           /\ last'.op \in {"approve_result", "submit_result"}) =>
              /\ last'.err = "InvalidRequestStatus"
              /\ UNCHANGED <<requests, lamports>>]_vars

\* C6 amended: on an approved request every approve_result fails with
\* InvalidRequestStatus, every submit_result fails with ResultDataTooLong when
\* its payload is longer than 2000 and with InvalidRequestStatus otherwise, and
\* none of these calls changes a request or a balance.
C6_RepeatFails ==
    [][\A r \in Requests :
          (/\ requests[r].status = "Approved"
           /\ last'.request = r
           /\ last'.op \in {"approve_result", "submit_result"}) =>
              /\ last'.err =
                    IF last'.op = "submit_result" /\ last'.data > MaxResultData
                    THEN "ResultDataTooLong"
                    ELSE "InvalidRequestStatus"
              /\ UNCHANGED <<requests, lamports>>]_vars

\* A second approve_result by the requester has just been refused on a request
\* that is already approved.
C6_Witness ==
    \E r \in Requests :
        /\ requests[r].status = "Approved"
        /\ last.op = "approve_result"
        /\ last.request = r
        /\ last.caller = requests[r].user
        /\ last.err = "InvalidRequestStatus"

\* C7: the result payload is empty exactly when the status is Pending or
\* InProgress.
C7_ResultEmptyIffOpen ==
    \A r \in Requests :
        Initialized(r) =>
            (requests[r].result_data = 0
                <=> requests[r].status \in {"Pending", "InProgress"})

\* The checks a distribute_payment call makes apart from the arithmetic.
DistributeAccepted(amount, source_account, platform_account, treasury_account) ==
    /\ DistributePaymentAccounts(platform_account, treasury_account) = "Ok"
    /\ amount > 0
    /\ lamports[source_account] >= amount

\* C8: for every amount of the word range, an approve_result that passes its
\* status and requester checks, and a distribute_payment that passes its
\* account, amount and funds checks with stored shares s1 + s2 <= 100,
\* succeeds and pays floor(amount*s1/100) and floor(amount*s2/100), with no
\* overflow, wrap-around or failure.
C8_WidenedProduct ==
    [][/\ (/\ last'.op = "approve_result"
           /\ ApproveResultCheck(requests[last'.request], last'.caller) = "Ok") =>
             LET A == requests[last'.request].amount
             IN  /\ last'.err = "Ok"
                 /\ last'.creator_amount = (A * CreatorPercent) \div PercentBase
                 /\ last'.platform_amount = (A * PlatformPercent) \div PercentBase
       /\ (/\ last'.op = "distribute_payment"
           /\ DistributeAccepted(last'.amount, last'.source,
                                 last'.platform_wallet, last'.treasury_wallet)
           /\ config.creator_share + config.platform_share <= PercentBase) =>
             /\ last'.err = "Ok"
             /\ last'.creator_amount
                    = (last'.amount * config.creator_share) \div PercentBase
             /\ last'.platform_amount
                    = (last'.amount * config.platform_share) \div PercentBase]_vars

RequesterOps == {"approve_result", "dispute_result", "cancel_request"}

\* C9 as stated: approve_result, dispute_result and cancel_request by a caller
\* other than the stored requester fail with UnauthorizedUser and change nothing.
C9_NonRequesterUnauthorized ==
    [][(/\ last'.op \in RequesterOps
        /\ Initialized(last'.request)
        /\ last'.caller # requests[last'.request].user) =>
          /\ last'.err = "UnauthorizedUser"
          /\ UNCHANGED <<requests, lamports>>]_vars

\* The error of the checks that precede the requester check, "Ok" if they pass.
EarlierCheck(op, sr, data) ==
    CASE op = "approve_result" ->
            IF sr.status = "Completed" THEN "Ok" ELSE "InvalidRequestStatus"
      [] op = "dispute_result" ->
            IF data > MaxDisputeReason THEN "DisputeReasonTooLong"
            ELSE IF sr.status = "Completed" THEN "Ok"
            ELSE "InvalidRequestStatus"
      [] op = "cancel_request" ->
            IF sr.status = "Pending" THEN "Ok" ELSE "CannotCancelRequest"

\* C9 amended: such a call always fails and changes nothing; its error is
\* UnauthorizedUser when the checks made before the requester check pass (the
\* status the operation requires, the reason length), and otherwise the error
\* of the first failing earlier check (InvalidRequestStatus,
\* CannotCancelRequest or DisputeReasonTooLong).
C9_NonRequesterRejected ==
    [][(/\ last'.op \in RequesterOps
        /\ Initialized(last'.request)
        /\ last'.caller # requests[last'.request].user) =>
          LET e == EarlierCheck(last'.op, requests[last'.request], last'.data)
          IN  /\ last'.err = IF e = "Ok" THEN "UnauthorizedUser" ELSE e
              /\ UNCHANGED <<requests, lamports>>]_vars

\* cancel_request by somebody else than the requester has just been refused
\* with UnauthorizedUser on a pending request.
C9_Witness ==
    \E r \in Requests :
        /\ requests[r].status = "Pending"
        /\ last.op = "cancel_request"
        /\ last.request = r
        /\ last.caller # requests[r].user
        /\ last.err = "UnauthorizedUser"

\* C10: submit_result completes a request only for the provider the request
\* names; a call by anybody else is rejected and changes no request.
C10_OnlyProviderSubmits ==
    [][(/\ last'.op = "submit_result"
        /\ Initialized(last'.request)
        /\ last'.caller # requests[last'.request].agent_id) =>
          /\ last'.err # "Ok"
          /\ UNCHANGED requests]_vars

\* C11: a successful dispute_result changes only the status of its request
\* (Completed -> Disputed) and no balance at all; and once a request is
\* Disputed no step takes funds out of its escrow, which keeps holding at
\* least the request's amount.
C11_DisputeFrame ==
    [][/\ (last'.op = "dispute_result" /\ last'.err = "Ok") =>
             /\ requests[last'.request].status = "Completed"
             /\ requests' = [requests EXCEPT ![last'.request].status = "Disputed"]
             /\ lamports' = lamports
       /\ \A r \in Requests :
             requests[r].status = "Disputed" =>
                /\ lamports[EscrowPda(r)] >= requests[r].amount
                /\ lamports'[EscrowPda(r)] >= lamports[EscrowPda(r)]
                /\ requests'[r] = requests[r]]_vars

\* A disputed request whose escrow holds its amount, on which the requester
\* has just tried approve_result.
C11_Witness ==
    \E r \in Requests :
        /\ requests[r].status = "Disputed"
        /\ lamports[EscrowPda(r)] = requests[r].amount
        /\ last.op = "approve_result"
        /\ last.request = r
        /\ last.caller = requests[r].user
        /\ last.err = "InvalidRequestStatus"

\* C12: approve_result is all-or-nothing.  A call that succeeds moves the
\* request from Completed to Approved and applies all three disbursements
\* (with pairwise distinct payees other than the escrow: every payee is
\* credited its reported amount and the escrow is debited their sum); a call
\* that fails changes no request and no balance; and a call whose split
\* leaves the u64 range, or whose escrow holds less than the amount, fails.
C12_ApproveAllOrNothing ==
    [][last'.op = "approve_result" =>
          LET r == last'.request
              e == EscrowPda(r)
              payees == <<last'.creator, last'.platform_wallet, last'.treasury_wallet>>
              paid == <<last'.creator_amount, last'.platform_amount, last'.treasury_amount>>
          IN  /\ last'.err = "Ok" =>
                    /\ requests[r].status = "Completed"
                    /\ requests' = [requests EXCEPT ![r].status = "Approved"]
                    /\ Cardinality({payees[1], payees[2], payees[3], e}) = 4 =>
                          /\ \A i \in 1 .. 3 :
                                lamports'[payees[i]] = lamports[payees[i]] + paid[i]
                          /\ lamports'[e] = lamports[e] - (paid[1] + paid[2] + paid[3])
              /\ last'.err # "Ok" => requests' = requests /\ lamports' = lamports
              /\ (\/ requests[r].amount * CreatorPercent > U64Max
                  \/ lamports[e] < requests[r].amount) => last'.err # "Ok"]_vars

\* C13: once initialize_config has succeeded, the stored shares sum to 100 as
\* integers (not merely modulo 256), whatever triples of u8 values
\* initialize_config and update_config were offered.
C13_SharesSumTo100 ==
    config.initialized =>
        config.creator_share + config.platform_share + config.treasury_share
            = PercentBase

\* C14: an update_config on the initialized configuration succeeds only if
\* its caller is the stored admin and the shares after the update sum to 100;
\* otherwise it fails with InvalidShareTotal or UnauthorizedAdmin and leaves
\* the whole configuration (shares, wallets, pause flag, running totals) as
\* it was.
C14_UpdateConfigValidated ==
    [][(last'.op = "update_config" /\ config.initialized) =>
          /\ last'.err = "Ok" =>
                /\ last'.caller = config.admin
                /\ config'.creator_share + config'.platform_share
                       + config'.treasury_share = PercentBase
          /\ last'.err # "Ok" =>
                /\ last'.err \in {"InvalidShareTotal", "UnauthorizedAdmin"}
                /\ config' = config]_vars

\* C15: while the pause flag is set (from a set_pause_state(true) to the next
\* set_pause_state(false)) every distribute_payment fails with ContractPaused
\* and changes no balance, running total or DistributionRecord; the flag
\* changes only in a successful set_pause_state of the stored admin, to the
\* value that call passes; a set_pause_state by anyone else fails and leaves
\* the configuration unchanged.
C15_PauseGate ==
    [][/\ (last'.op = "distribute_payment" /\ config.is_paused) =>
             /\ last'.err = "ContractPaused"
             /\ UNCHANGED <<lamports, config, distributions>>
       /\ config'.is_paused # config.is_paused =>
             /\ last'.op = "set_pause_state"
             /\ last'.err = "Ok"
             /\ last'.caller = config.admin
             /\ config'.is_paused = (last'.data = 1)
       /\ (last'.op = "set_pause_state" /\ config.initialized
              /\ last'.caller # config.admin) =>
             /\ last'.err = "UnauthorizedAdmin"
             /\ config' = config]_vars

\* A payment with the right wallets and a funded source has just been refused
\* because the contract is paused.
C15_Witness ==
    /\ last.op = "distribute_payment"
    /\ last.err = "ContractPaused"
    /\ config.is_paused
    /\ last.amount > 0
    /\ lamports[last.source] >= last.amount
    /\ last.platform_wallet = config.platform_wallet
    /\ last.treasury_wallet = config.treasury_wallet

\* The DistributionRecords that exist in d.
Records(d) == {i \in DOMAIN d : d[i].initialized}

RECURSIVE SumTotalAmount(_, _)
SumTotalAmount(d, S) ==
    IF S = {} THEN 0
    ELSE LET i == CHOOSE x \in S : TRUE
         IN  d[i].total_amount + SumTotalAmount(d, S \ {i})

\* C16: after every distribute_payment, successful or failed,
\* total_transactions is the number of DistributionRecords, total_distributed
\* is the sum of their total_amount fields and the three amounts of every
\* record sum to its total_amount; a successful call found at least `amount`
\* in the source account and leaves it with exactly `amount` less.
C16_DistributionTotals ==
    [][last'.op = "distribute_payment" =>
          /\ config'.total_transactions = Cardinality(Records(distributions'))
          /\ config'.total_distributed
                 = SumTotalAmount(distributions', Records(distributions'))
          /\ \A i \in Records(distributions') :
                distributions'[i].creator_amount
                    + distributions'[i].platform_amount
                    + distributions'[i].treasury_amount
                        = distributions'[i].total_amount
          /\ last'.err = "Ok" =>
                /\ lamports[last'.source] >= last'.amount
                /\ lamports'[last'.source] = lamports[last'.source] - last'.amount]_vars

\* C17: every successful approve_result and every successful
\* distribute_payment adds exactly one DistributionRecord, whose total and
\* per-payee amounts are the amounts of that call, and no step changes or
\* removes a DistributionRecord that exists.
C17_AuditRecordPerPayout ==
    [][/\ (last'.op \in {"approve_result", "distribute_payment"} /\ last'.err = "Ok") =>
             \E i \in Records(distributions') \ Records(distributions) :
                 /\ Records(distributions') = Records(distributions) \cup {i}
                 /\ distributions'[i].total_amount = last'.amount
                 /\ distributions'[i].creator_amount = last'.creator_amount
                 /\ distributions'[i].platform_amount = last'.platform_amount
                 /\ distributions'[i].treasury_amount = last'.treasury_amount
       /\ \A i \in Records(distributions) : distributions'[i] = distributions[i]]_vars

----------------------------------------------------------------------------
(* Properties of reputation-system *)

\* The ratings that were submitted to profile p.
RatingsOf(p) == {r \in RatingPdas : ratings[r].initialized /\ ratings[r].agent_id = p}

\* C18 as stated: a profile with total_ratings = 0 has average_rating,
\* quality_score, speed_score and value_score all 0.
C18_EmptyProfileAllZero ==
    \A p \in ReputationPdas :
        (profiles[p].initialized /\ profiles[p].total_ratings = 0) =>
            /\ profiles[p].average_rating = 0
            /\ profiles[p].quality_score = 0
            /\ profiles[p].speed_score = 0
            /\ profiles[p].value_score = 0

\* C18, amended: a profile with total_ratings = 0 has average_rating 0, and
\* its three sub-scores are 0 as long as no rating was ever submitted to it
\* (invalidating the last rating resets the count and the average only).
C18_EmptyProfileAverageZero ==
    \A p \in ReputationPdas :
        (profiles[p].initialized /\ profiles[p].total_ratings = 0) =>
            /\ profiles[p].average_rating = 0
            /\ RatingsOf(p) = {} =>
                  /\ profiles[p].quality_score = 0
                  /\ profiles[p].speed_score = 0
                  /\ profiles[p].value_score = 0

\* The only rating of a profile has just been declared invalid: count and
\* average are back to 0, the sub-scores are still those of that rating.
C18_Witness ==
    /\ last.op = "moderate_rating"
    /\ last.err = "Ok"
    /\ ~last.is_valid
    /\ Cardinality(RatingsOf(last.profile)) = 1
    /\ profiles[last.profile].total_ratings = 0
    /\ profiles[last.profile].average_rating = 0
    /\ profiles[last.profile].quality_score = ratings[last.request].quality

ValidRatingsOf(p) ==
    {r \in RatingsOf(p) : ~(ratings[r].is_moderated /\ ~ratings[r].is_valid)}

RECURSIVE SumStars(_)
SumStars(S) ==
    IF S = {} THEN 0
    ELSE LET r == CHOOSE x \in S : TRUE
         IN  ratings[r].stars + SumStars(S \ {r})

\* C20 as stated: total_ratings is the number of the profile's currently
\* valid ratings and average_rating is floor(sum of their stars / their
\* number).
C20_AverageIsMeanOfValid ==
    \A p \in ReputationPdas :
        profiles[p].initialized =>
            LET V == ValidRatingsOf(p)
            IN  /\ profiles[p].total_ratings = Cardinality(V)
                /\ V # {} =>
                      profiles[p].average_rating = SumStars(V) \div Cardinality(V)

\* C20, amended: while no rating has been moderated, total_ratings is the
\* number of ratings submitted to the profile and average_rating, the
\* step-wise truncated running mean, lies between the smallest stars value
\* and floor(sum / count); it equals floor(sum / count) for up to two ratings.
C20_RunningMeanBounds ==
    (\A r \in RatingPdas : ~ratings[r].is_moderated) =>
        \A p \in ReputationPdas :
            profiles[p].initialized =>
                LET R == RatingsOf(p)
                    n == Cardinality(R)
                IN  /\ profiles[p].total_ratings = n
                    /\ R # {} =>
                          /\ profiles[p].average_rating <= SumStars(R) \div n
                          /\ \E r \in R : ratings[r].stars <= profiles[p].average_rating
                          /\ n <= 2 => profiles[p].average_rating = SumStars(R) \div n

\* Ratings with stars 3, 4 and 5 submitted in this order, none moderated: the
\* stored average is 3, the mean of the three is 4.
C20_Witness ==
    \E p \in ReputationPdas :
        /\ profiles[p].total_ratings = 3
        /\ Cardinality(RatingsOf(p)) = 3
        /\ \A r \in RatingPdas : ~ratings[r].is_moderated
        /\ SumStars(RatingsOf(p)) \div 3 = 4
        /\ profiles[p].average_rating = 3

\* C21: a submit_rating for a (requester, request) pair that already has a
\* Rating fails and changes neither any Rating nor any profile; so a
\* successful submit_rating always creates a Rating that did not exist.
C21_SecondRatingFails ==
    [][last'.op = "submit_rating" =>
          /\ ratings[last'.request].initialized =>
                /\ last'.err # "Ok"
                /\ ratings' = ratings
                /\ profiles' = profiles
          /\ last'.err = "Ok" =>
                /\ ~ratings[last'.request].initialized
                /\ ratings'[last'.request].initialized
                /\ \A r \in RatingPdas \ {last'.request} : ratings'[r] = ratings[r]]_vars

\* A well-formed second rating for a pair that has one was just refused.
C21_Witness ==
    /\ last.op = "submit_rating"
    /\ last.err = "AccountAlreadyInUse"
    /\ last.scores \in ValidScoreInputs
    /\ last.data <= MaxReviewText
    /\ ratings[last.request].initialized
    /\ ratings[last.request].stars # last.scores[1]

\* The administrator of the deployment; the program stores none (the admin
\* account of moderate_rating is "verified off-chain").  bob is a requester.
Administrator == "alice"

\* C22: a moderate_rating whose caller is not the administrator is rejected
\* and changes neither the rating (moderation flag, validity, admin note) nor
\* the profile (total_ratings, average_rating).
C22_ModerationAdminOnly ==
    [][(last'.op = "moderate_rating" /\ last'.caller # Administrator) =>
          /\ last'.err # "Ok"
          /\ ratings' = ratings
          /\ profiles' = profiles]_vars

\* C23: a successful moderate_rating(is_valid = false) on a profile with
\* total_ratings = 1 sets average_rating and total_ratings to 0; on a profile
\* with total_ratings = n > 1 it sets average_rating to
\* floor((average_rating * n - stars) / (n - 1)) and total_ratings to n - 1;
\* a successful moderate_rating(is_valid = true) changes neither field.
C23_ModerationArithmetic ==
    [][(last'.op = "moderate_rating" /\ last'.err = "Ok") =>
          LET old == profiles[last'.profile]
              new == profiles'[last'.profile]
              n == old.total_ratings
              stars == ratings[last'.request].stars
          IN  /\ (~last'.is_valid /\ n = 1) =>
                    new.total_ratings = 0 /\ new.average_rating = 0
              /\ (~last'.is_valid /\ n > 1) =>
                    /\ new.total_ratings = n - 1
                    /\ new.average_rating
                           = (old.average_rating * n - stars) \div (n - 1)
              /\ last'.is_valid =>
                    /\ new.total_ratings = n
                    /\ new.average_rating = old.average_rating]_vars

\* C24: moderate_rating (valid or invalid) and report_rating leave
\* quality_score, speed_score and value_score of every profile unchanged;
\* report_rating also leaves average_rating and total_ratings unchanged and
\* changes only the report flag and reason of its rating.
C24_SubScoresFrame ==
    [][/\ last'.op \in {"moderate_rating", "report_rating"} =>
             \A p \in ReputationPdas :
                 /\ profiles'[p].quality_score = profiles[p].quality_score
                 /\ profiles'[p].speed_score = profiles[p].speed_score
                 /\ profiles'[p].value_score = profiles[p].value_score
       /\ last'.op = "report_rating" =>
             /\ profiles' = profiles
             /\ \A r \in RatingPdas :
                   [ratings'[r] EXCEPT !.is_reported = ratings[r].is_reported,
                                       !.report_reason = ratings[r].report_reason]
                       = ratings[r]
             /\ \A r \in RatingPdas \ {last'.request} : ratings'[r] = ratings[r]
             /\ last'.err = "Ok" =>
                   /\ ratings'[last'.request].is_reported
                   /\ ratings'[last'.request].report_reason = SomeString(last'.data)]_vars

\* A rating that counts in a profile with non-zero sub-scores has been
\* reported and then declared invalid.
C24_Witness ==
    /\ last.op = "moderate_rating"
    /\ last.err = "Ok"
    /\ ~last.is_valid
    /\ ratings[last.request].is_reported
    /\ profiles[last.profile].quality_score > 0
    /\ profiles[last.profile].total_ratings > 0

\* C25: the aggregate arithmetic is trapped, never wrapped: a
\* moderate_rating(is_valid = false) on a profile with more than one rating
\* whose average_rating * total_ratings is smaller than the rating's stars
\* fails and leaves the profile unchanged.
C25_UnderflowTrapped ==
    [][(/\ last'.op = "moderate_rating"
        /\ ~last'.is_valid
        /\ ratings[last'.request].initialized
        /\ profiles[last'.profile].initialized
        /\ profiles[last'.profile].total_ratings > 1
        /\ profiles[last'.profile].average_rating * profiles[last'.profile].total_ratings
              < ratings[last'.request].stars) =>
          /\ last'.err # "Ok"
          /\ profiles' = profiles
          /\ ratings' = ratings]_vars

----------------------------------------------------------------------------
(* Properties across requests and payees *)

\* C26: operations on different requests are independent: an operation on
\* one request leaves the record (status, payloads) and the escrow balance of
\* every other request unchanged.
C26_OtherRequestsUntouched ==
    [][last'.op \in {"create_service_request", "submit_result", "approve_result",
                     "dispute_result", "cancel_request"} =>
          \A r \in Requests \ {last'.request} :
              /\ requests'[r] = requests[r]
              /\ lamports'[EscrowPda(r)] = lamports[EscrowPda(r)]]_vars

\* C28: on every successful approve_result the creator share is credited to
\* the provider recorded in the request and the other two shares to the
\* platform and treasury wallets of the deployment; the approving caller
\* does not choose the receiving accounts.
C28_PayeesFixed ==
    [][(last'.op = "approve_result" /\ last'.err = "Ok") =>
          /\ last'.creator = requests[last'.request].agent_id
          /\ last'.platform_wallet = "platform"
          /\ last'.treasury_wallet = "treasury"
          /\ last'.caller \notin {last'.creator, last'.platform_wallet, last'.treasury_wallet}]_vars

----------------------------------------------------------------------------
(* Properties of stored ratings *)

ScoresOf(rating) == <<rating.stars, rating.quality, rating.speed, rating.value>>

OutOfRange(scores) == \E i \in 1..4 : scores[i] < MinScore \/ scores[i] > MaxScore

\* C27 as stated: every stored Rating has its four scores in [1,5]; a
\* submit_rating with a score of 0 or above 5 fails with InvalidRating,
\* creates no Rating and leaves the profile unchanged; no later operation
\* changes the four scores of a stored rating.
C27_ScoresInRangeInvalidRating ==
    /\ [](\A r \in RatingPdas : ratings[r].initialized => ~OutOfRange(ScoresOf(ratings[r])))
    /\ [][(last'.op = "submit_rating" /\ OutOfRange(last'.scores)) =>
             /\ last'.err = "InvalidRating"
             /\ ratings' = ratings
             /\ profiles' = profiles]_vars
    /\ [][\A r \in RatingPdas :
             ratings[r].initialized =>
                 /\ ratings'[r].initialized
                 /\ ScoresOf(ratings'[r]) = ScoresOf(ratings[r])]_vars

\* C27, amended: the same, except that the error is InvalidRating only when
\* the accounts of the call are accepted (the profile exists and the pair has
\* no Rating yet); otherwise the call fails with the account error.
C27_ScoresInRange ==
    /\ [](\A r \in RatingPdas : ratings[r].initialized => ~OutOfRange(ScoresOf(ratings[r])))
    /\ [][(last'.op = "submit_rating" /\ OutOfRange(last'.scores)) =>
             /\ last'.err =
                   IF ~profiles[last'.profile].initialized THEN "AccountNotInitialized"
                   ELSE IF ratings[last'.request].initialized THEN "AccountAlreadyInUse"
                   ELSE "InvalidRating"
             /\ ratings' = ratings
             /\ profiles' = profiles]_vars
    /\ [][\A r \in RatingPdas :
             ratings[r].initialized =>
                 /\ ratings'[r].initialized
                 /\ ScoresOf(ratings'[r]) = ScoresOf(ratings[r])]_vars

\* A submit_rating with an out-of-range score has been refused with
\* InvalidRating while another rating is stored and has been moderated.
C27_Witness ==
    /\ last.op = "submit_rating"
    /\ last.err = "InvalidRating"
    /\ OutOfRange(last.scores)
    /\ \E r \in RatingPdas : ratings[r].initialized /\ ratings[r].is_moderated

\* C29: invalidating a rating is idempotent on the profile: a
\* moderate_rating(is_valid = false) on a rating that has already been
\* declared invalid changes neither total_ratings nor average_rating of any
\* profile, and total_ratings never drops below the number of the profile's
\* ratings that are still valid.
C29_InvalidationIdempotent ==
    /\ [][(/\ last'.op = "moderate_rating"
           /\ ~last'.is_valid
           /\ ratings[last'.request].is_moderated
           /\ ~ratings[last'.request].is_valid) =>
             \A p \in ReputationPdas :
                 /\ profiles'[p].total_ratings = profiles[p].total_ratings
                 /\ profiles'[p].average_rating = profiles[p].average_rating]_vars
    /\ [](\A p \in ReputationPdas :
             profiles[p].total_ratings >= Cardinality(ValidRatingsOf(p)))

\* C30: moderate_rating adjusts only the profile of the provider the rating
\* was submitted for: a call that pairs a rating with another provider's
\* profile is rejected, and no moderate_rating changes total_ratings or
\* average_rating of a profile other than the rating's own.
C30_ModerationOwnProfileOnly ==
    [][(last'.op = "moderate_rating" /\ ratings[last'.request].initialized) =>
          /\ last'.profile # ratings[last'.request].agent_id =>
                /\ last'.err # "Ok"
                /\ profiles' = profiles
                /\ ratings' = ratings
          /\ \A p \in ReputationPdas \ {ratings[last'.request].agent_id} :
                /\ profiles'[p].total_ratings = profiles[p].total_ratings
                /\ profiles'[p].average_rating = profiles[p].average_rating]_vars

----------------------------------------------------------------------------
(* Properties of the whole system *)

\* C31 as stated: a profile with total_ratings > 0 has its average_rating in
\* [1,5], after any sequence of submit_rating and moderate_rating calls.
C31_AverageInRange ==
    \A p \in ReputationPdas :
        (profiles[p].initialized /\ profiles[p].total_ratings > 0) =>
            /\ profiles[p].average_rating >= MinScore
            /\ profiles[p].average_rating <= MaxScore

\* C31, amended: the range holds as long as no rating has been moderated;
\* total_ratings is then the number of the profile's ratings.
C31_AverageInRangeUnmoderated ==
    (\A r \in RatingPdas : ~ratings[r].is_moderated) =>
        \A p \in ReputationPdas :
            (profiles[p].initialized /\ profiles[p].total_ratings > 0) =>
                /\ profiles[p].average_rating >= MinScore
                /\ profiles[p].average_rating <= MaxScore
                /\ profiles[p].total_ratings = Cardinality(RatingsOf(p))

\* Three ratings with different stars are counted and none has been
\* moderated.
C31_Witness ==
    /\ \A r \in RatingPdas : ~ratings[r].is_moderated
    /\ \E p \in ReputationPdas :
          /\ profiles[p].total_ratings = 3
          /\ \E r1, r2 \in RatingsOf(p) : ratings[r1].stars # ratings[r2].stars

RECURSIVE SumLamports(_)
SumLamports(S) ==
    IF S = {} THEN 0
    ELSE LET a == CHOOSE x \in S : TRUE
         IN  lamports[a] + SumLamports(S \ {a})

\* C32: funds are conserved: after any sequence of operations, successful
\* or failed, the balances of all accounts add up to the initial sum.
C32_FundsConserved ==
    SumLamports(DOMAIN lamports) = InitialLamports["alice"] + InitialLamports["bob"]

\* C33: no reachable state has a request with status InProgress, so a
\* request that has been created and has had no successful submit_result
\* (and has not been cancelled) can be cancelled by its requester: such a
\* cancel_request succeeds and makes the request Cancelled.
C33_NeverInProgress ==
    /\ [](\A r \in Requests : requests[r].status # "InProgress")
    /\ [][(/\ last'.op = "cancel_request"
           /\ requests[last'.request].status \in {"Pending", "InProgress"}
           /\ last'.caller = requests[last'.request].user) =>
             /\ last'.err = "Ok"
             /\ requests'[last'.request].status = "Cancelled"]_vars
    /\ [][\A r \in Requests :
             (requests[r].status = "Pending" /\ requests'[r].status # "Pending") =>
                 \/ last'.op = "cancel_request" /\ requests'[r].status = "Cancelled"
                 \/ last'.op = "submit_result" /\ requests'[r].status = "Completed"]_vars

\* A requester has just cancelled its request while the other request has
\* already been completed.
C33_Witness ==
    /\ last.op = "cancel_request"
    /\ last.err = "Ok"
    /\ requests[last.request].status = "Cancelled"
    /\ \E q \in Requests \ {last.request} : requests[q].status = "Completed"

====
